---- MODULE Spec2Model ----
(***************************************************************************)
(* Model of shore_tts/models/hifigan/model.py: the ConvNeXt residual block *)
(* family, the HiFi-GAN upsampling generator and the top-level vocoder     *)
(* ADaMoSHiFiGANV1 (construction, strict weight loading, decode/encode,    *)
(* weight-norm folding).                                                   *)
(*                                                                         *)
(* A tensor of shape (batch, ch, len) is a record                          *)
(*   [err, ch, len, v, own, wr]                                            *)
(* err  "" or the name of the exception raised while computing it,         *)
(* ch   channel count, len  time length,                                   *)
(* v    one integer per batch sample standing for the sample's contents    *)
(*      (residues modulo ValMod),                                          *)
(* own  TRUE iff the storage is the caller's tensor (not a fresh result),  *)
(* wr   the values written in place into caller-owned storage so far.      *)
(* Shapes are computed exactly as torch computes them; contents keep the   *)
(* data flow (which operands and parameters a result is read from).        *)
(***************************************************************************)
EXTENDS Integers, Sequences, FiniteSets, TLC

VARIABLES
    gpc,      \* SpecGen: "cfg" | "built" | "failed" | "ran"
    gcfg,     \* SpecGen: the generator's constructor arguments
    gen,      \* SpecGen: the constructed HiFiGANGenerator (or its failure)
    gin,      \* SpecGen: the forward call's arguments [frames, template]
    gres,     \* SpecGen: the forward call's result [x, pre, trace]
    bpc,      \* SpecBlock: "in" | "out"
    bin,      \* SpecBlock: the block's constructor arguments and its input
    bout,     \* SpecBlock: the operation run and what it returned
    py_debug, \* Spec: python's __debug__ (FALSE under python -O)
    ckpt_file,\* Spec: the tensors stored in the checkpoint file on disk
    pc,       \* Spec: "new" | "ready" | "failed"
    args,     \* Spec: the arguments ADaMoSHiFiGANV1 was constructed with
    model,    \* Spec: the instance: module graph, parameters, training flag
    cerr,     \* Spec: the exception construction raised, with its keys
    events,   \* Spec: what construction did, in order
    hist      \* Spec: the calls made on the instance, with their results

gvars == <<gpc, gcfg, gen, gin, gres>>

bvars == <<bpc, bin, bout>>

mvars == <<py_debug, ckpt_file, pc, args, model, cerr, events, hist>>

vars == <<gpc, gcfg, gen, gin, gres, bpc, bin, bout,
          py_debug, ckpt_file, pc, args, model, cerr, events, hist>>

None == "None"

(* ------------------------------ bounds -------------------------------- *)
\* residues standing for tensor contents
ValMod == 17
\* longest upsample_rates / upsample_kernel_sizes tuple tried
MaxStages == 2
\* largest hop_length tried
MaxHop == 6
\* longest resblock_kernel_sizes / resblock_dilation_sizes tuple tried
MaxKernels == 2
\* most mel frames fed to a forward pass
MaxFrames == 3
\* upsample_initial_channel of the generators tried
InitialChannel == 8
\* num_mels of the generators tried
NumMels == 2
\* most kernel sizes given to a ParallelConvNeXtBlock
MaxBranches == 2
\* longest input fed to a block
MaxBlockLen == 3
\* largest batch fed to a block
MaxBatch == 2
\* most calls made on one constructed model
MaxCalls == 3

(* --------------------------- python helpers --------------------------- *)
Min(a, b) == IF a < b THEN a ELSE b

Max(a, b) == IF a > b THEN a ELSE b

RECURSIVE prod(_)
\* math.prod / np.prod of a tuple (1 for the empty tuple)
prod(s) == IF Len(s) = 0 THEN 1 ELSE Head(s) * prod(Tail(s))

RECURSIVE Pow2(_)
Pow2(n) == IF n <= 0 THEN 1 ELSE 2 * Pow2(n - 1)

\* s[i:] of a python tuple, i a 0-based python index
Suffix(s, i) == SubSeq(s, i + 1, Len(s))

\* SeqsUpTo(S, n): the tuples over S of length 1..n
SeqsUpTo(S, n) == UNION {[1..m -> S] : m \in 1..n}

Wrap(n) == n % ValMod

(* ------------------------------ tensors ------------------------------- *)
Tensor(ch, len, v, own) ==
    [err |-> "", ch |-> ch, len |-> len, v |-> v, own |-> own, wr |-> <<>>]

\* the result of an operation that raised `kind`; the in-place writes done
\* before the exception stay done
Raise(kind, wr) ==
    [err |-> kind, ch |-> 0, len |-> 0, v |-> <<>>, own |-> FALSE, wr |-> wr]

Ok(x) == x.err = ""

\* python's None where a tensor is expected
NoTensor == Raise("None", <<>>)

IsNone(x) == x.err = "None"

\* a fresh result with the shape and contents given, reading from x
Fresh(x, ch, len, v) ==
    [err |-> "", ch |-> ch, len |-> len, v |-> v, own |-> FALSE, wr |-> x.wr]

Map1(f(_), v) == [b \in 1..Len(v) |-> Wrap(f(v[b]))]

Map2(f(_, _), v, w) == [b \in 1..Len(v) |-> Wrap(f(v[b], w[b]))]

\* integer stand-ins for the pointwise nonlinearities
silu_fn(a) == a * a + a

gelu_fn(a) == a * a * a + 2 * a

tanh_fn(a) == a * a * a + a

add_fn(a, b) == a + b

\* F.silu(x): a new tensor
F_silu(x) ==
    IF ~Ok(x) THEN x ELSE Fresh(x, x.ch, x.len, Map1(silu_fn, x.v))

\* F.silu(x, inplace=True), nn.SiLU(inplace=True): overwrites x's storage
F_silu_inplace(x) ==
    IF ~Ok(x) THEN x
    ELSE LET nv == Map1(silu_fn, x.v)
         IN  [x EXCEPT !.v = nv,
                       !.wr = IF x.own THEN Append(x.wr, nv) ELSE x.wr]

torch_tanh(x) ==
    IF ~Ok(x) THEN x ELSE Fresh(x, x.ch, x.len, Map1(tanh_fn, x.v))

\* a + b with broadcasting along time: equal lengths, or one of them 1
TensorAdd(a, b) ==
    IF ~Ok(a) THEN a
    ELSE IF ~Ok(b) THEN [b EXCEPT !.wr = a.wr \o b.wr]
    ELSE IF a.ch # b.ch /\ a.ch # 1 /\ b.ch # 1
         THEN Raise("RuntimeError", a.wr \o b.wr)
    ELSE IF a.len # b.len /\ a.len # 1 /\ b.len # 1
         THEN Raise("RuntimeError", a.wr \o b.wr)
    ELSE [err |-> "", ch |-> Max(a.ch, b.ch), len |-> Max(a.len, b.len),
          v |-> Map2(add_fn, a.v, b.v), own |-> FALSE, wr |-> a.wr \o b.wr]

\* a += b: the result keeps a's storage and shape, b broadcasts into it
TensorIAdd(a, b) ==
    IF ~Ok(a) THEN a
    ELSE IF ~Ok(b) THEN [b EXCEPT !.wr = a.wr \o b.wr]
    ELSE IF (b.ch # a.ch /\ b.ch # 1) \/ (b.len # a.len /\ b.len # 1)
         THEN Raise("RuntimeError", a.wr \o b.wr)
    ELSE LET nv == Map2(add_fn, a.v, b.v)
         IN  [a EXCEPT !.v = nv,
                       !.wr = IF a.own THEN Append(a.wr \o b.wr, nv)
                              ELSE a.wr \o b.wr]

(* ---------------------------- convolutions ---------------------------- *)
\* A parameter name of the module graph (a state_dict key, one per
\* parametrised module): attribute, index in its ModuleList, sub-attribute,
\* index in that ModuleList.
PName(attr, i, sub, c) == <<attr, ToString(i), sub, ToString(c)>>

\* nn.Conv1d(cin, cout, k, stride, padding, dilation, groups); its weights
\* are the parameter called name
Conv1d(name, cin, cout, k, stride, padding, dilation, groups) ==
    [kind |-> "Conv1d", name |-> name, cin |-> cin, cout |-> cout, k |-> k,
     stride |-> stride, padding |-> padding, dilation |-> dilation,
     groups |-> groups, wn |-> ""]

\* nn.ConvTranspose1d(cin, cout, k, stride, padding)
ConvTranspose1d(name, cin, cout, k, stride, padding) ==
    [kind |-> "ConvTranspose1d", name |-> name, cin |-> cin, cout |-> cout,
     k |-> k, stride |-> stride, padding |-> padding, dilation |-> 1,
     groups |-> 1, wn |-> ""]

\* torch.nn.utils.weight_norm(module): the hook-based reparametrisation; the
\* module's weight is recomputed from weight_g and weight_v before each
\* forward and the module carries no torch.nn.utils.parametrize entry
weight_norm(m) == [m EXCEPT !.wn = "hook"]

\* torch's output length of a convolution over an input of length L
ConvOutLen(m, L) ==
    IF m.kind = "Conv1d"
    THEN (L + 2 * m.padding - m.dilation * (m.k - 1) - 1) \div m.stride + 1
    ELSE (L - 1) * m.stride - 2 * m.padding + m.dilation * (m.k - 1) + 1

\* calling a convolution module on x, with the parameter store P
\* (name -> [val, loaded])
ConvApply(m, P, x) ==
    IF ~Ok(x) THEN x
    ELSE IF x.ch # m.cin THEN Raise("RuntimeError", x.wr)
    ELSE IF m.padding < 0 THEN Raise("RuntimeError", x.wr)
    ELSE IF m.kind = "Conv1d"
            /\ x.len + 2 * m.padding < m.dilation * (m.k - 1) + 1
         THEN Raise("RuntimeError", x.wr)
    ELSE IF ConvOutLen(m, x.len) <= 0 THEN Raise("RuntimeError", x.wr)
    ELSE Fresh(x, m.cout, ConvOutLen(m, x.len),
               [b \in 1..Len(x.v) |-> Wrap(P[m.name].val * x.v[b] + m.k)])

(* ------------------------- drop_path / DropPath ----------------------- *)
\* drop_path with the early return taken only when both conditions hold
\* (`and` written for `or`): in every other case the mask is drawn
drop_path_and(x, drop_prob, training, scale_by_keep, rnd) ==
    IF (drop_prob = 0 /\ ~training) \/ ~Ok(x) THEN [x |-> x, draws |-> 0]
    ELSE LET keep_prob == 10 - drop_prob
         IN  [x |-> Fresh(x, x.ch, x.len,
                          [b \in 1..Len(x.v) |->
                              Wrap((x.v[b] * rnd[b] * 10)
                                     \div (IF keep_prob > 0 THEN keep_prob
                                           ELSE 10))]),
              draws |-> 1]

\* drop_path(x, drop_prob, training, scale_by_keep). Probabilities are in
\* tenths (drop_prob 5 is 0.5). rnd[b] in {0, 1} is what bernoulli_ draws
\* for sample b when it is called. Result: the tensor returned and the
\* number of calls made to the random generator.
drop_path(x, drop_prob, training, scale_by_keep, rnd) ==
    IF drop_prob = 0 \/ ~training THEN [x |-> x, draws |-> 0]
    ELSE IF ~Ok(x) THEN [x |-> x, draws |-> 0]
    ELSE LET keep_prob == 10 - drop_prob
             random_tensor ==
                 [b \in 1..Len(x.v) |->
                     LET r == IF keep_prob <= 0 THEN 0 ELSE rnd[b]
                     IN  IF keep_prob > 0 /\ scale_by_keep
                         THEN [num |-> r * 10, den |-> keep_prob]
                         ELSE [num |-> r, den |-> 1]]
         IN  [x |-> Fresh(x, x.ch, x.len,
                          [b \in 1..Len(x.v) |->
                              Wrap((x.v[b] * random_tensor[b].num)
                                     \div random_tensor[b].den)]),
              draws |-> 1]

\* DropPath(drop_prob, scale_by_keep)
DropPath(drop_prob) ==
    [kind |-> "DropPath", drop_prob |-> drop_prob, scale_by_keep |-> TRUE]

\* nn.Identity()
Identity == [kind |-> "Identity", drop_prob |-> 0, scale_by_keep |-> TRUE]

\* DropPath.forward / nn.Identity.forward
DropPath_forward(m, x, training, rnd) ==
    IF m.kind = "Identity" THEN x
    ELSE drop_path(x, m.drop_prob, training, m.scale_by_keep, rnd).x

(* ------------------------------ LayerNorm ----------------------------- *)
LayerNorm(name, normalized_shape, data_format) ==
    [name |-> name, dim |-> normalized_shape, data_format |-> data_format]

\* LayerNorm.forward: normalises over the channel axis (the last axis of a
\* channels_last tensor, axis 1 of a channels_first one)
LayerNorm_forward(m, P, x) ==
    IF ~Ok(x) THEN x
    ELSE IF x.ch # m.dim THEN Raise("RuntimeError", x.wr)
    ELSE Fresh(x, x.ch, x.len,
               [b \in 1..Len(x.v) |-> Wrap(P[m.name].val * x.v[b] + 1)])

\* nn.Linear(cin, cout) applied to the channel axis
Linear(name, cin, cout) == [name |-> name, cin |-> cin, cout |-> cout]

Linear_forward(m, P, x) ==
    IF ~Ok(x) THEN x
    ELSE IF x.ch # m.cin THEN Raise("RuntimeError", x.wr)
    ELSE Fresh(x, m.cout, x.len,
               [b \in 1..Len(x.v) |-> Wrap(P[m.name].val * x.v[b] + 2)])

nn_GELU(x) ==
    IF ~Ok(x) THEN x ELSE Fresh(x, x.ch, x.len, Map1(gelu_fn, x.v))

(* ---------------------------- ConvNeXtBlock --------------------------- *)
\* ConvNeXtBlock(dim, drop_path, layer_scale_init_value, mlp_ratio = 4,
\* kernel_size, dilation); path is the block's place in the module graph.
\* The depthwise convolution is built from kernel_size, padding and groups
\* only: dilation enters the padding and nothing else.
ConvNeXtBlock(path, dim, drop_prob, layer_scale_init_value, kernel_size, dilation) ==
    [path |-> path,
     dwconv |-> Conv1d(Append(path, "dwconv"), dim, dim, kernel_size, 1,
                       (dilation * (kernel_size - 1)) \div 2, 1, dim),
     norm |-> LayerNorm(Append(path, "norm"), dim, "channels_last"),
     pwconv1 |-> Linear(Append(path, "pwconv1"), dim, 4 * dim),
     pwconv2 |-> Linear(Append(path, "pwconv2"), 4 * dim, dim),
     has_gamma |-> layer_scale_init_value > 0,
     gamma |-> Append(path, "gamma"),
     drop_path |-> IF drop_prob > 0 THEN DropPath(drop_prob) ELSE Identity]

ConvNeXtBlockNames(blk) ==
    {blk.dwconv.name, blk.norm.name, blk.pwconv1.name, blk.pwconv2.name}
    \cup (IF blk.has_gamma THEN {blk.gamma} ELSE {})

\* self.gamma * x
ConvNeXtBlock_scale(blk, P, x) ==
    IF ~blk.has_gamma \/ ~Ok(x) THEN x
    ELSE Fresh(x, x.ch, x.len,
               [b \in 1..Len(x.v) |-> Wrap(P[blk.gamma].val * x.v[b])])

\* ConvNeXtBlock.forward(x, apply_residual); rnd maps a block's path to the
\* draws of its DropPath
ConvNeXtBlock_forward(blk, P, x, apply_residual, training, rnd) ==
    LET x1 == ConvApply(blk.dwconv, P, x)
        x2 == LayerNorm_forward(blk.norm, P, x1)
        x3 == Linear_forward(blk.pwconv1, P, x2)
        x4 == nn_GELU(x3)
        x5 == Linear_forward(blk.pwconv2, P, x4)
        x6 == ConvNeXtBlock_scale(blk, P, x5)
        x7 == DropPath_forward(blk.drop_path, x6, training, rnd[blk.path])
    IN  IF apply_residual THEN TensorAdd(x, x7) ELSE x7

(* ------------------------ ParallelConvNeXtBlock ----------------------- *)
ParallelConvNeXtBlock(path, kernel_sizes, dim, drop_prob, layer_scale_init_value, dilation) ==
    [path |-> path,
     blocks |-> [n \in 1..Len(kernel_sizes) |->
                    ConvNeXtBlock(path \o <<"blocks", ToString(n - 1)>>, dim,
                                  drop_prob, layer_scale_init_value,
                                  kernel_sizes[n], dilation)]]

ParallelNames(pb) ==
    UNION {ConvNeXtBlockNames(pb.blocks[n]) : n \in 1..Len(pb.blocks)}

RECURSIVE StackSum(_, _)
\* torch.stack(ts, dim=1).sum(dim=1) of the non-empty list ts: every tensor
\* must have the shape of the first
StackSum(ts, acc) ==
    IF Len(ts) = 0 THEN acc
    ELSE LET t == Head(ts)
         IN  IF ~Ok(acc) THEN acc
             ELSE IF ~Ok(t) THEN [t EXCEPT !.wr = acc.wr \o t.wr]
             ELSE IF t.ch # acc.ch \/ t.len # acc.len
                  THEN Raise("RuntimeError", acc.wr \o t.wr)
             ELSE StackSum(Tail(ts),
                           [acc EXCEPT !.v = Map2(add_fn, acc.v, t.v),
                                       !.wr = acc.wr \o t.wr])

\* ParallelConvNeXtBlock.forward
ParallelConvNeXtBlock_forward(pb, P, x, training, rnd) ==
    LET ts == [n \in 1..Len(pb.blocks) |->
                  ConvNeXtBlock_forward(pb.blocks[n], P, x, FALSE, training,
                                        rnd)] \o <<x>>
        first == Head(ts)
    IN  IF \E n \in 1..Len(ts) : ~Ok(ts[n])
        THEN LET bad == CHOOSE n \in 1..Len(ts) :
                            ~Ok(ts[n]) /\ \A m \in 1..(n - 1) : Ok(ts[m])
             IN  ts[bad]
        ELSE StackSum(Tail(ts),
                      Fresh(first, first.ch, first.len, first.v))

(* ------------------------------ ResBlock1 ----------------------------- *)
get_padding(kernel_size, dilation) ==
    (kernel_size * dilation - dilation) \div 2

\* ResBlock1(channels, kernel_size, dilation): three weight-normed pairs
\* (convs1[c] dilated, convs2[c] with dilation 1); j is its index in
\* HiFiGANGenerator.resblocks
ResBlock1(j, channels, kernel_size, dilation) ==
    [convs1 |-> [c \in 1..3 |->
                    weight_norm(
                        Conv1d(PName("resblocks", j, "convs1", c - 1),
                               channels, channels, kernel_size, 1,
                               get_padding(kernel_size, dilation[c]),
                               dilation[c], 1))],
     convs2 |-> [c \in 1..3 |->
                    weight_norm(
                        Conv1d(PName("resblocks", j, "convs2", c - 1),
                               channels, channels, kernel_size, 1,
                               get_padding(kernel_size, 1), 1, 1))]]

RECURSIVE ResBlock1Loop(_, _, _, _)
\* the zip(convs1, convs2) loop of ResBlock1.forward from pair c on
ResBlock1Loop(rb, P, x, c) ==
    IF c > 3 \/ ~Ok(x) THEN x
    ELSE LET xt1 == F_silu(x)
             xt2 == ConvApply(rb.convs1[c], P, xt1)
             xt3 == F_silu(xt2)
             xt4 == ConvApply(rb.convs2[c], P, xt3)
         IN  ResBlock1Loop(rb, P, TensorAdd(xt4, x), c + 1)

ResBlock1_forward(rb, P, x) == ResBlock1Loop(rb, P, x, 1)

ResBlock1Names(rb) ==
    {rb.convs1[c].name : c \in 1..3} \cup {rb.convs2[c].name : c \in 1..3}

(* --------------------------- HiFiGANGenerator ------------------------- *)
\* the module graph when __init__ raised `kind` after assigning `built`
GenFailed(kind, built) ==
    [err |-> kind, built |-> built, num_upsamples |-> 0, num_kernels |-> 0,
     use_template |-> FALSE, conv_pre |-> None, ups |-> <<>>,
     noise_convs |-> <<>>, resblocks |-> <<>>, conv_post |-> None]

\* self.ups: one transposed convolution per (u, k) of
\* zip(upsample_rates, upsample_kernel_sizes)
GenUps(cfg) ==
    LET n == Min(Len(cfg.upsample_rates), Len(cfg.upsample_kernel_sizes))
        C == cfg.upsample_initial_channel
    IN  [i \in 1..n |->
            weight_norm(
                ConvTranspose1d(PName("ups", i - 1, "", 0),
                                C \div Pow2(i - 1), C \div Pow2(i),
                                cfg.upsample_kernel_sizes[i],
                                cfg.upsample_rates[i],
                                (cfg.upsample_kernel_sizes[i]
                                   - cfg.upsample_rates[i]) \div 2))]

\* self.noise_convs: with use_template, one template convolution per stage
GenNoiseConvs(cfg) ==
    LET n == Min(Len(cfg.upsample_rates), Len(cfg.upsample_kernel_sizes))
        C == cfg.upsample_initial_channel
    IN  IF ~cfg.use_template THEN <<>>
        ELSE [i \in 1..n |->
                LET c_cur == C \div Pow2(i)
                    stride_f0 == prod(Suffix(cfg.upsample_rates, i))
                IN  IF i < Len(cfg.upsample_rates)
                    THEN Conv1d(PName("noise_convs", i - 1, "", 0), 1, c_cur,
                                stride_f0 * 2, stride_f0, stride_f0 \div 2,
                                1, 1)
                    ELSE Conv1d(PName("noise_convs", i - 1, "", 0), 1, c_cur,
                                1, 1, 0, 1, 1)]

\* self.resblocks: for every built stage i, one ResBlock1 per (k, d) of
\* zip(resblock_kernel_sizes, resblock_dilation_sizes), appended in order
GenResblocks(cfg) ==
    LET n  == Min(Len(cfg.upsample_rates), Len(cfg.upsample_kernel_sizes))
        nz == Min(Len(cfg.resblock_kernel_sizes),
                  Len(cfg.resblock_dilation_sizes))
        C  == cfg.upsample_initial_channel
    IN  [q \in 1..(n * nz) |->
            LET i == (q - 1) \div nz
                z == (q - 1) % nz
            IN  ResBlock1(q - 1, C \div Pow2(i + 1),
                          cfg.resblock_kernel_sizes[z + 1],
                          cfg.resblock_dilation_sizes[z + 1])]

\* HiFiGANGenerator.__init__; debug is python's __debug__ (assert statements
\* are compiled in unless the interpreter runs with -O)
HiFiGANGenerator_init(cfg, debug) ==
    LET n == Min(Len(cfg.upsample_rates), Len(cfg.upsample_kernel_sizes))
        C == cfg.upsample_initial_channel
    IN  IF debug /\ prod(cfg.upsample_rates) # cfg.hop_length
        THEN GenFailed("AssertionError", <<>>)
        ELSE IF n = 0
        THEN GenFailed("NameError",
                       <<"conv_pre", "noise_convs", "ups", "resblocks">>)
        ELSE [err |-> "",
              built |-> <<"conv_pre", "noise_convs", "ups", "resblocks",
                          "activation_post", "conv_post">>,
              num_upsamples |-> Len(cfg.upsample_rates),
              num_kernels |-> Len(cfg.resblock_kernel_sizes),
              use_template |-> cfg.use_template,
              conv_pre |-> weight_norm(
                               Conv1d(PName("conv_pre", 0, "", 0),
                                      cfg.num_mels, C,
                                      cfg.pre_conv_kernel_size, 1,
                                      get_padding(cfg.pre_conv_kernel_size,
                                                  1),
                                      1, 1)),
              ups |-> GenUps(cfg),
              noise_convs |-> GenNoiseConvs(cfg),
              resblocks |-> GenResblocks(cfg),
              conv_post |-> weight_norm(
                                Conv1d(PName("conv_post", 0, "", 0),
                                       C \div Pow2(n), 1,
                                       cfg.post_conv_kernel_size, 1,
                                       get_padding(cfg.post_conv_kernel_size,
                                                   1),
                                       1, 1))]

\* the parameter names of a constructed generator
GenNames(g) ==
    {g.conv_pre.name, g.conv_post.name}
    \cup {g.ups[i].name : i \in 1..Len(g.ups)}
    \cup {g.noise_convs[i].name : i \in 1..Len(g.noise_convs)}
    \cup UNION {ResBlock1Names(g.resblocks[q]) : q \in 1..Len(g.resblocks)}

RECURSIVE GenKernelLoop(_, _, _, _, _, _, _)
\* the `for j in range(self.num_kernels)` loop of stage i from j on; xs is
\* NoTensor or the running sum, ran the indexes into self.resblocks of the
\* ResBlocks called so far
GenKernelLoop(g, P, x, i, j, xs, ran) ==
    IF j >= g.num_kernels THEN [xs |-> xs, ran |-> ran]
    ELSE IF ~IsNone(xs) /\ ~Ok(xs) THEN [xs |-> xs, ran |-> ran]
    ELSE IF i * g.num_kernels + j + 1 > Len(g.resblocks)
         THEN [xs |-> Raise("IndexError", IF IsNone(xs) THEN x.wr ELSE xs.wr),
               ran |-> ran]
    ELSE CHOOSE res \in
           {GenKernelLoop(g, P, x, i, j + 1,
                          IF IsNone(xs) THEN r ELSE TensorIAdd(xs, r),
                          Append(ran, i * g.num_kernels + j)) :
              r \in {ResBlock1_forward(
                        g.resblocks[i * g.num_kernels + j + 1], P, x)}} : TRUE

\* xs / self.num_kernels
GenAverage(g, xs, wr) ==
    IF IsNone(xs) THEN Raise("TypeError", wr)
    ELSE IF ~Ok(xs) THEN xs
    ELSE Fresh(xs, xs.ch, xs.len,
               [b \in 1..Len(xs.v) |-> xs.v[b] \div g.num_kernels])

\* self.noise_convs[i](template)
GenNoise(g, P, i, template, wr) ==
    IF i + 1 > Len(g.noise_convs) THEN Raise("IndexError", wr)
    ELSE IF IsNone(template) THEN Raise("TypeError", wr)
    ELSE ConvApply(g.noise_convs[i + 1], P, template)

RECURSIVE GenStageLoop(_, _, _, _, _, _)
\* the `for i in range(self.num_upsamples)` loop of forward from stage i on;
\* trace records, per stage run, the transposed convolution's output (up),
\* the template convolution's output (noise), the ResBlocks' input (inp),
\* the indexes of the ResBlocks called (ran) and the stage's output (out)
GenStageLoop(g, P, x, template, i, trace) ==
    IF i >= g.num_upsamples \/ ~Ok(x) THEN [x |-> x, trace |-> trace]
    ELSE LET x1 == F_silu_inplace(x)
             x2 == IF i + 1 > Len(g.ups) THEN Raise("IndexError", x1.wr)
                   ELSE ConvApply(g.ups[i + 1], P, x1)
             nz == IF g.use_template /\ Ok(x2)
                   THEN GenNoise(g, P, i, template, x2.wr)
                   ELSE NoTensor
             x3 == IF g.use_template /\ Ok(x2) THEN TensorAdd(x2, nz) ELSE x2
             ks == IF Ok(x3)
                   THEN GenKernelLoop(g, P, x3, i, 0, NoTensor, <<>>)
                   ELSE [xs |-> x3, ran |-> <<>>]
             x4 == IF Ok(x3) THEN GenAverage(g, ks.xs, x3.wr) ELSE x3
         IN  GenStageLoop(g, P, x4, template, i + 1,
                          Append(trace, [up |-> x2, noise |-> nz,
                                         inp |-> x3, ran |-> ks.ran,
                                         out |-> x4]))

\* HiFiGANGenerator.forward(x, template): the result x, conv_pre's output
\* and the stages' trace
HiFiGANGenerator_forward(g, P, x, template) ==
    LET x0 == ConvApply(g.conv_pre, P, x)
        st == GenStageLoop(g, P, x0, template, 0, <<>>)
        y1 == F_silu_inplace(st.x)
        y2 == ConvApply(g.conv_post, P, y1)
    IN  [x |-> torch_tanh(y2), pre |-> x0, trace |-> st.trace]

\* torch.nn.utils.parametrize.remove_parametrizations(module, tensor_name,
\* leave_parametrized=True), called with the positional arguments given on
\* a convolution: "" when it folds the parametrisation, else the exception
remove_parametrizations(positional) ==
    IF Len(positional) < 2 THEN "TypeError"
    ELSE IF positional[1].wn # "parametrization" THEN "ValueError"
    ELSE ""

RECURSIVE FoldAll(_, _)
\* remove_weight_norm(conv) for each conv of the list, in order: the
\* convolutions folded before the first exception, and that exception
FoldAll(convs, done) ==
    IF Len(convs) = 0 THEN [err |-> "", folded |-> done]
    ELSE LET e == remove_parametrizations(<<Head(convs)>>)
         IN  IF e # "" THEN [err |-> e, folded |-> done]
             ELSE FoldAll(Tail(convs), done \cup {Head(convs).name})

RECURSIVE ResBlockConvs(_, _)
\* the convolutions in the order ResBlock1.remove_weight_norm visits them,
\* for the resblocks from q on
ResBlockConvs(rbs, q) ==
    IF q > Len(rbs) THEN <<>>
    ELSE rbs[q].convs1 \o rbs[q].convs2 \o ResBlockConvs(rbs, q + 1)

\* HiFiGANGenerator.remove_weight_norm: ups, then every ResBlock, then
\* conv_pre and conv_post
HiFiGANGenerator_remove_weight_norm(g) ==
    FoldAll(g.ups \o ResBlockConvs(g.resblocks, 1)
              \o <<g.conv_pre, g.conv_post>>, {})

(* ---------------------------- ConvNeXtEncoder ------------------------- *)
EncFailed(kind) ==
    [err |-> kind, channel_layers |-> <<>>, stages |-> <<>>,
     norm |-> LayerNorm(<<>>, 0, "channels_first")]

\* torch.linspace(0, drop_path_rate, n)[i] in tenths, i 0-based
Linspace(rate, n, i) == IF n <= 1 THEN 0 ELSE (rate * i) \div (n - 1)

RECURSIVE SumTo(_, _)
\* sum(depths[:i])
SumTo(depths, i) == IF i <= 0 THEN 0 ELSE depths[i] + SumTo(depths, i - 1)

\* ConvNeXtEncoder.__init__
ConvNeXtEncoder_init(cfg, debug) ==
    IF debug /\ Len(cfg.depths) # Len(cfg.dims)
    THEN EncFailed("AssertionError")
    ELSE IF Len(cfg.dims) < Len(cfg.depths) \/ Len(cfg.dims) = 0
    THEN EncFailed("IndexError")
    ELSE
    [err |-> "",
     channel_layers |->
        [i \in 1..Len(cfg.depths) |->
            IF i = 1
            THEN [conv |-> Conv1d(<<"backbone", "channel_layers", "0", "0">>,
                                  cfg.input_channels, cfg.dims[1], 7, 1, 3,
                                  1, 1),
                  norm |-> LayerNorm(<<"backbone", "channel_layers", "0",
                                       "1">>, cfg.dims[1], "channels_first"),
                  stem |-> TRUE]
            ELSE [conv |-> Conv1d(<<"backbone", "channel_layers",
                                    ToString(i - 1), "1">>,
                                  cfg.dims[i - 1], cfg.dims[i], 1, 1, 0, 1,
                                  1),
                  norm |-> LayerNorm(<<"backbone", "channel_layers",
                                       ToString(i - 1), "0">>,
                                     cfg.dims[i - 1], "channels_first"),
                  stem |-> FALSE]],
     parallel |-> Len(cfg.kernel_sizes) # 1,
     stages |->
        [i \in 1..Len(cfg.depths) |->
            [j \in 1..cfg.depths[i] |->
                LET path == <<"backbone", "stages", ToString(i - 1),
                              ToString(j - 1)>>
                    rate == Linspace(cfg.drop_path_rate,
                                     SumTo(cfg.depths, Len(cfg.depths)),
                                     SumTo(cfg.depths, i - 1) + j - 1)
                IN  IF Len(cfg.kernel_sizes) = 1
                    THEN <<ConvNeXtBlock(path, cfg.dims[i], rate, 1,
                                         cfg.kernel_sizes[1], 1)>>
                    ELSE ParallelConvNeXtBlock(path, cfg.kernel_sizes,
                                               cfg.dims[i], rate, 1,
                                               1).blocks]],
     norm |-> LayerNorm(<<"backbone", "norm">>, cfg.dims[Len(cfg.dims)],
                        "channels_first")]

\* the blocks of every stage, flattened (a basic block is a one-block list)
EncBlockSet(enc) ==
    UNION {UNION {{enc.stages[i][j][n] : n \in 1..Len(enc.stages[i][j])} :
                    j \in 1..Len(enc.stages[i])} : i \in 1..Len(enc.stages)}

EncNames(enc) ==
    {enc.norm.name}
    \cup UNION {{enc.channel_layers[i].conv.name,
                 enc.channel_layers[i].norm.name} :
                   i \in 1..Len(enc.channel_layers)}
    \cup UNION {ConvNeXtBlockNames(blk) : blk \in EncBlockSet(enc)}

\* one block of a stage: a ConvNeXtBlock or a ParallelConvNeXtBlock
EncBlock_forward(enc, blocks, P, x, training, rnd) ==
    IF enc.parallel
    THEN ParallelConvNeXtBlock_forward([path |-> <<>>, blocks |-> blocks], P,
                                       x, training, rnd)
    ELSE ConvNeXtBlock_forward(blocks[1], P, x, TRUE, training, rnd)

RECURSIVE EncStage_forward(_, _, _, _, _, _, _)
\* nn.Sequential of stage i from block j on
EncStage_forward(enc, i, j, P, x, training, rnd) ==
    IF j > Len(enc.stages[i]) THEN x
    ELSE EncStage_forward(enc, i, j + 1, P,
             EncBlock_forward(enc, enc.stages[i][j], P, x, training, rnd),
             training, rnd)

\* channel_layers[i]: the stem (conv, norm) or a transition (norm, conv)
EncChannelLayer_forward(cl, P, x) ==
    IF cl.stem
    THEN LayerNorm_forward(cl.norm, P, ConvApply(cl.conv, P, x))
    ELSE ConvApply(cl.conv, P, LayerNorm_forward(cl.norm, P, x))

RECURSIVE EncLoop(_, _, _, _, _, _)
\* the zip(channel_layers, stages) loop from i on
EncLoop(enc, i, P, x, training, rnd) ==
    IF i > Len(enc.stages) THEN x
    ELSE EncLoop(enc, i + 1, P,
             EncStage_forward(enc, i, 1, P,
                 EncChannelLayer_forward(enc.channel_layers[i], P, x),
                 training, rnd),
             training, rnd)

\* ConvNeXtEncoder.forward
ConvNeXtEncoder_forward(enc, P, x, training, rnd) ==
    LayerNorm_forward(enc.norm, P, EncLoop(enc, 1, P, x, training, rnd))

(* ---------------------------- ADaMoSHiFiGANV1 ------------------------ *)
\* the parameters as __init__ leaves them (init_weights), before any load
InitParams(names) == [n \in names |-> [val |-> 1, loaded |-> FALSE]]

\* LogMelSpectrogram.forward: frames of hop_length samples, n_mels channels
\* (the class lives in spectrogram.py)
LogMelSpectrogram_forward(x, hop_length, n_mels) ==
    IF ~Ok(x) THEN x
    ELSE Fresh(x, n_mels, x.len \div hop_length + 1,
               [b \in 1..Len(x.v) |-> Wrap(3 * x.v[b] + 1)])

\* SelectStateDict with the two sources tried in the other order: the
\* checkpoint path first
SelectStateDict_path_first(a, file) ==
    IF a.ckpt_path # None
    THEN IF a.ckpt_path = "model.safetensors"
         THEN [err |-> "", opened |-> TRUE, sd |-> file]
         ELSE [err |-> "FileNotFoundError", opened |-> TRUE, sd |-> <<>>]
    ELSE IF a.loaded_state_dict.given
    THEN [err |-> "", opened |-> FALSE, sd |-> a.loaded_state_dict.sd]
    ELSE [err |-> "ValueError", opened |-> FALSE, sd |-> <<>>]

\* the state dict construction loads: loaded_state_dict when it is not None,
\* else the tensors read from ckpt_path, else ValueError. file is what the
\* path "model.safetensors" holds; no other path exists.
SelectStateDict(a, file) ==
    IF a.loaded_state_dict.given
    THEN [err |-> "", opened |-> FALSE, sd |-> a.loaded_state_dict.sd]
    ELSE IF a.ckpt_path # None
    THEN IF a.ckpt_path = "model.safetensors"
         THEN [err |-> "", opened |-> TRUE, sd |-> file]
         ELSE [err |-> "FileNotFoundError", opened |-> TRUE, sd |-> <<>>]
    ELSE [err |-> "ValueError", opened |-> FALSE, sd |-> <<>>]

\* load_state_dict that loads what it finds and reports nothing
load_state_dict_best_effort(P, sd, strict) ==
    [err |-> "", keys |-> {},
     P |-> [n \in DOMAIN P |->
              IF n \in DOMAIN sd /\ sd[n].shape_ok
              THEN [val |-> sd[n].val, loaded |-> TRUE]
              ELSE P[n]]]

\* Module.load_state_dict(sd, strict): the parameters afterwards, and the
\* RuntimeError raised with the keys it lists (missing, unexpected, of the
\* wrong shape)
load_state_dict(P, sd, strict) ==
    LET missing == DOMAIN P \ DOMAIN sd
        unexpected == DOMAIN sd \ DOMAIN P
        mismatch == {n \in DOMAIN P \cap DOMAIN sd : ~sd[n].shape_ok}
        bad == (IF strict THEN missing \cup unexpected ELSE {}) \cup mismatch
    IN  [err |-> IF bad = {} THEN "" ELSE "RuntimeError",
         keys |-> bad,
         P |-> [n \in DOMAIN P |->
                  IF n \in DOMAIN sd /\ sd[n].shape_ok
                  THEN [val |-> sd[n].val, loaded |-> TRUE]
                  ELSE P[n]]]

\* a module left in training mode
Module_eval_skipped(m) == m

\* Module.eval()
Module_eval(m) == [m EXCEPT !.training = FALSE]

NoModel ==
    [backbone |-> EncFailed(""), head |-> GenFailed("", <<>>), P |-> <<>>,
     training |-> TRUE]

HeadCfg(a) ==
    [hop_length |-> a.hop_length,
     upsample_rates |-> a.upsample_rates,
     upsample_kernel_sizes |-> a.upsample_kernel_sizes,
     resblock_kernel_sizes |-> a.resblock_kernel_sizes,
     resblock_dilation_sizes |-> a.resblock_dilation_sizes,
     num_mels |-> a.num_mels,
     upsample_initial_channel |-> a.upsample_initial_channel,
     use_template |-> a.use_template,
     pre_conv_kernel_size |-> a.pre_conv_kernel_size,
     post_conv_kernel_size |-> a.post_conv_kernel_size]

\* the parameter names the module graph requires
RequiredNames(enc, g) == EncNames(enc) \cup GenNames(g)

\* ADaMoSHiFiGANV1.__init__: the instance, the exception raised (with the
\* keys it names) and what was done before it, in order
ADaMoSHiFiGANV1_init(a, debug, file) ==
    LET enc == ConvNeXtEncoder_init(a, debug)
        g == HeadCfg(a)
        head == HiFiGANGenerator_init(g, debug)
        sel == SelectStateDict(a, file)
        built == [backbone |-> enc, head |-> head,
                  P |-> InitParams(RequiredNames(enc, head)),
                  training |-> TRUE]
        ld == load_state_dict(built.P, sel.sd, TRUE)
        ev3 == <<"backbone", "head", "mel_transform">>
        ev4 == IF sel.opened THEN Append(ev3, "open") ELSE ev3
    IN  IF enc.err # ""
        THEN [m |-> NoModel, err |-> enc.err, keys |-> {}, events |-> <<>>]
        ELSE IF head.err # ""
        THEN [m |-> NoModel, err |-> head.err, keys |-> {},
              events |-> <<"backbone">>]
        ELSE IF sel.err # ""
        THEN [m |-> built, err |-> sel.err, keys |-> {}, events |-> ev4]
        ELSE IF ld.err # ""
        THEN [m |-> [built EXCEPT !.P = ld.P], err |-> ld.err,
              keys |-> ld.keys, events |-> Append(ev4, "load")]
        ELSE [m |-> Module_eval([built EXCEPT !.P = ld.P]), err |-> "",
              keys |-> {}, events |-> ev4 \o <<"load", "eval">>]

\* ADaMoSHiFiGANV1.decode(mel): backbone, then head with no template
ADaMoSHiFiGANV1_decode(m, mel, rnd) ==
    CHOOSE audio \in
        {HiFiGANGenerator_forward(m.head, m.P, h, NoTensor).x :
            h \in {ConvNeXtEncoder_forward(m.backbone, m.P, mel, m.training,
                                           rnd)}} : TRUE

\* ADaMoSHiFiGANV1.encode(x)
ADaMoSHiFiGANV1_encode(m, a, x) ==
    LogMelSpectrogram_forward(x, a.hop_length, a.n_mels)

\* a module list with the parametrisation of the folded convolutions removed
Folded(convs, folded) ==
    [i \in 1..Len(convs) |->
        IF convs[i].name \in folded THEN [convs[i] EXCEPT !.wn = ""]
        ELSE convs[i]]

\* the generator after remove_weight_norm folded the convolutions named
GenFolded(g, folded) ==
    [g EXCEPT !.ups = Folded(g.ups, folded),
              !.resblocks = [q \in 1..Len(g.resblocks) |->
                               [convs1 |-> Folded(g.resblocks[q].convs1,
                                                  folded),
                                convs2 |-> Folded(g.resblocks[q].convs2,
                                                  folded)]],
              !.conv_pre = Folded(<<g.conv_pre>>, folded)[1],
              !.conv_post = Folded(<<g.conv_post>>, folded)[1]]

\* the convolutions of a generator that still carry weight normalisation
GenStillNormed(g) ==
    {c \in {g.conv_pre, g.conv_post}
           \cup {g.ups[i] : i \in 1..Len(g.ups)}
           \cup UNION {{g.resblocks[q].convs1[c1] : c1 \in 1..3}
                       \cup {g.resblocks[q].convs2[c2] : c2 \in 1..3} :
                         q \in 1..Len(g.resblocks)} : c.wn # ""}

(* ------------------- Spec: the life of one vocoder -------------------- *)
NoCall == [frames |-> 0, template |-> FALSE]

NoResult == [x |-> NoTensor, pre |-> NoTensor, trace |-> <<>>]

MainIdle ==
    /\ py_debug = TRUE
    /\ ckpt_file = <<>>
    /\ pc = "off"
    /\ args = [hop_length |-> 0]
    /\ model = NoModel
    /\ cerr = [err |-> "", keys |-> {}]
    /\ events = <<>>
    /\ hist = <<>>

GenIdle ==
    /\ gpc = "off"
    /\ gcfg = [hop_length |-> 0]
    /\ gen = GenFailed("", <<>>)
    /\ gin = NoCall
    /\ gres = NoResult

BlockIdle ==
    /\ bpc = "off"
    /\ bin = [len |-> 0]
    /\ bout = [op |-> ""]

\* the paths of the modules of a block list that draw random numbers
DropSites(blocks) ==
    {blocks[n].path : n \in {m \in 1..Len(blocks) :
                                blocks[m].drop_path.kind = "DropPath"}}

\* every outcome of the random generator for the sites given
Draws(sites, batch) == [sites -> [1..batch -> {0, 1}]]

\* rnd extended to all paths (modules that never draw read nothing)
WithDefault(rnd, paths, batch) ==
    [q \in paths |-> IF q \in DOMAIN rnd THEN rnd[q]
                     ELSE [b \in 1..batch |-> 1]]

\* the architectures tried: one or two upsampling stages of rate 2, with
\* hop_length 2 or 4 (equal to the product of the rates or not)
ArchArgs ==
    {[input_channels |-> 2, depths |-> <<1, 1>>, dims |-> <<2, 4>>,
      drop_path_rate |-> dpr, kernel_sizes |-> <<7>>,
      upsample_rates |-> ur,
      upsample_kernel_sizes |-> [i \in 1..Len(ur) |-> 2 * ur[i]],
      resblock_kernel_sizes |-> <<3>>,
      resblock_dilation_sizes |-> <<<<1, 3, 5>>>>,
      num_mels |-> 4, upsample_initial_channel |-> InitialChannel,
      use_template |-> FALSE, pre_conv_kernel_size |-> 7,
      post_conv_kernel_size |-> 7, hop_length |-> hop, n_mels |-> 2] :
        dpr \in {0, 5}, ur \in {<<2>>, <<2, 2>>}, hop \in {2, 4}}

\* the parameter names of the graph an architecture builds
ArchNames(a) ==
    RequiredNames(ConvNeXtEncoder_init(a, FALSE),
                  HiFiGANGenerator_init(HeadCfg(a), FALSE))

\* the state dict holding every name of `names` with value val
CompleteDict(names, val) == [n \in names |-> [val |-> val, shape_ok |-> TRUE]]

Restrict(f, S) == [n \in S |-> f[n]]

\* state dicts for a graph: complete, empty, one name missing, one tensor of
\* the wrong shape, one name too many
DictsFor(names, val) ==
    {CompleteDict(names, val), <<>>}
    \cup {Restrict(CompleteDict(names, val), names \ {n}) : n \in names}
    \cup {[CompleteDict(names, val) EXCEPT ![n].shape_ok = FALSE] : n \in names}
    \cup {CompleteDict(names \cup {<<"extra">>}, val)}

CkptPaths == {None, "model.safetensors", "absent.safetensors"}

MelInputs == [len : {1, 2}, v : {1}]

WaveInputs == [len : {4}, v : {1}]

\* the caller's tensor for a call argument
MelTensor(a, i) == Tensor(a.input_channels, i.len, <<i.v>>, TRUE)

WaveTensor(i) == Tensor(1, i.len, <<i.v>>, TRUE)

\* what the caller's tensor holds after a call that returned t
After(i, t) == IF Len(t.wr) = 0 THEN i.v ELSE t.wr[Len(t.wr)][1]

\* what the file "model.safetensors" may hold: the tensors of the one-stage
\* architecture, all of them, all but one, or one of them of another shape
CkptFiles ==
    LET names == ArchNames(CHOOSE a \in ArchArgs :
                     a.upsample_rates = <<2>> /\ a.hop_length = 2
                     /\ a.drop_path_rate = 0)
        full == CompleteDict(names, 3)
    IN  {full,
         [n \in names \ {<<"backbone", "norm">>} |-> full[n]],
         [full EXCEPT ![<<"backbone", "norm">>].shape_ok = FALSE]}

Init ==
    /\ py_debug \in BOOLEAN
    /\ ckpt_file \in CkptFiles
    /\ pc = "new"
    /\ args = [hop_length |-> 0]
    /\ model = NoModel
    /\ cerr = [err |-> "", keys |-> {}]
    /\ events = <<>>
    /\ hist = <<>>
    /\ GenIdle
    /\ BlockIdle

\* ADaMoSHiFiGANV1(ckpt_path, loaded_state_dict = ..., **arch)
Construct ==
    /\ pc = "new"
    /\ \E arch \in ArchArgs, path \in CkptPaths, given \in BOOLEAN :
       \E sd \in IF given
                 THEN DictsFor(ArchNames(arch), 2)
                 ELSE {<<>>} :
         LET a == [k \in DOMAIN arch \cup {"ckpt_path", "loaded_state_dict"}
                     |-> IF k = "ckpt_path" THEN path
                         ELSE IF k = "loaded_state_dict"
                         THEN [given |-> given, sd |-> sd]
                         ELSE arch[k]]
         IN  \E r \in {ADaMoSHiFiGANV1_init(a, py_debug, ckpt_file)} :
               /\ args' = a
               /\ model' = r.m
               /\ cerr' = [err |-> r.err, keys |-> r.keys]
               /\ events' = r.events
               /\ pc' = IF r.err = "" THEN "ready" ELSE "failed"
    /\ UNCHANGED <<py_debug, ckpt_file, hist, gvars, bvars>>

\* model.decode(mel)
Decode ==
    /\ pc = "ready"
    /\ Len(hist) < MaxCalls
    /\ \E i \in MelInputs :
       \E d \in Draws({blk.path : blk \in
                         {e \in EncBlockSet(model.backbone) :
                             e.drop_path.kind = "DropPath"}}, 1) :
         LET rnd == WithDefault(d, {blk.path : blk \in
                                      EncBlockSet(model.backbone)}, 1)
         IN  \E out \in {ADaMoSHiFiGANV1_decode(model, MelTensor(args, i),
                                                 rnd)} :
               hist' = Append(hist, [op |-> "decode", arg |-> i,
                                     after |-> After(i, out), out |-> out])
    /\ UNCHANGED <<py_debug, ckpt_file, pc, args, model, cerr, events,
                   gvars, bvars>>

\* model.encode(x)
Encode ==
    /\ pc = "ready"
    /\ Len(hist) < MaxCalls
    /\ \E i \in WaveInputs :
       \E out \in {ADaMoSHiFiGANV1_encode(model, args, WaveTensor(i))} :
         hist' = Append(hist, [op |-> "encode", arg |-> i,
                               after |-> After(i, out), out |-> out])
    /\ UNCHANGED <<py_debug, ckpt_file, pc, args, model, cerr, events,
                   gvars, bvars>>

\* model.head.remove_weight_norm()
RemoveWeightNorm ==
    /\ pc = "ready"
    /\ Len(hist) < MaxCalls
    /\ \E r \in {HiFiGANGenerator_remove_weight_norm(model.head)} :
           /\ model' = [model EXCEPT !.head = GenFolded(model.head, r.folded)]
           /\ hist' = Append(hist, [op |-> "remove_weight_norm",
                                    arg |-> [len |-> 0, v |-> 0],
                                    after |-> 0, out |-> Raise(r.err, <<>>)])
    /\ UNCHANGED <<py_debug, ckpt_file, pc, args, cerr, events, gvars, bvars>>

Next == Construct \/ Decode \/ Encode \/ RemoveWeightNorm

Spec == Init /\ [][Next]_vars

(* ------------------- claims about the vocoder's life ------------------ *)
\* construction has run to its end, with or without an exception
Constructed == pc \in {"ready", "failed"}

\* the step named was taken during construction
Did(e) == \E k \in 1..Len(events) : events[k] = e

\* C2: construction with product(upsample_rates) # hop_length always fails
\* at the generator's check, before any module is built or any weight is
\* loaded.
C2_MismatchFailsBeforeAnythingIsBuilt ==
    (Constructed /\ prod(args.upsample_rates) # args.hop_length)
        => /\ pc = "failed"
           /\ cerr.err = "AssertionError"
           /\ events = <<>>

\* the mapping construction was given to load: the pre-loaded one, or the
\* checkpoint's
Supplied ==
    IF args.loaded_state_dict.given THEN args.loaded_state_dict.sd
    ELSE ckpt_file

\* the required parameter names the supplied mapping lacks or holds in the
\* wrong shape
Offending ==
    {n \in DOMAIN model.P : n \notin DOMAIN Supplied \/ ~Supplied[n].shape_ok}

\* C3: weight loading is strict. When the supplied mapping lacks a required
\* parameter name or holds a tensor of the wrong shape for one, construction
\* fails with the loading error naming every such key; a model that was
\* returned holds a loaded value for every required parameter.
C3_StrictWeightLoading ==
    /\ (Constructed /\ Did("load") /\ Offending # {})
          => /\ pc = "failed"
             /\ cerr.err = "RuntimeError"
             /\ Offending \subseteq cerr.keys
    /\ pc = "ready" => \A n \in DOMAIN model.P : model.P[n].loaded

\* C3's case: construction failed at loading and names a required key the
\* supplied mapping lacks and another, or the same, it holds in a wrong shape
C3_Witness ==
    /\ pc = "failed"
    /\ cerr.err = "RuntimeError"
    /\ \E n \in cerr.keys : n \in DOMAIN model.P /\ n \notin DOMAIN Supplied

\* the decode calls made so far
DecodeCalls == {k \in 1..Len(hist) : hist[k].op = "decode"}

\* C4: decode is a function of its input alone. Two decode calls with equal
\* mel input return equal waveforms whatever was called before or between
\* them, every decode and encode call leaves the caller's tensor as it was,
\* and no decode or encode call changes the weights, the inference-mode flag
\* or the module graph.
C4_DecodeIsPure ==
    /\ [](/\ \A j, k \in DecodeCalls :
                hist[j].arg = hist[k].arg => hist[j].out = hist[k].out
          /\ \A k \in 1..Len(hist) :
                hist[k].op \in {"decode", "encode"}
                    => /\ Ok(hist[k].out)
                       /\ hist[k].after = hist[k].arg.v)
    /\ [][(Len(hist') = Len(hist) + 1
             /\ hist'[Len(hist')].op \in {"decode", "encode"})
              => model' = model]_vars

\* C4's case: a model built with a drop-path rate above zero decoded the
\* same mel twice, with another call between the two
C4_Witness ==
    /\ pc = "ready"
    /\ args.drop_path_rate > 0
    /\ Len(hist) = 3
    /\ hist[1].op = "decode"
    /\ hist[3].op = "decode"
    /\ hist[1].arg = hist[3].arg
    /\ hist[2].arg # hist[1].arg

\* C5: remove_weight_norm on a constructed model folds every transposed
\* convolution, every convolution of every ResBlock and the pre and post
\* convolutions, and decode returns the same waveform afterwards.
C5_FoldingFoldsEveryConvolution ==
    \A k \in 1..Len(hist) :
        hist[k].op = "remove_weight_norm"
            => /\ Ok(hist[k].out)
               /\ GenStillNormed(model.head) = {}
               /\ \A i \in DecodeCalls, j \in DecodeCalls :
                     (i < k /\ k < j /\ hist[i].arg = hist[j].arg)
                         => hist[i].out = hist[j].out

\* C6: construction takes its weights from exactly one source. A pre-loaded
\* mapping, when given, is the one loaded and the checkpoint path is never
\* opened, whether or not a path was given; with no mapping the checkpoint
\* is opened and its tensors are the ones loaded; with neither, construction
\* fails and nothing is loaded.
C6_ExactlyOneWeightSource ==
    (Constructed /\ Did("mel_transform"))
        => /\ args.loaded_state_dict.given
              => /\ ~Did("open")
                 /\ pc = "ready"
                      => \A n \in DOMAIN model.P :
                            model.P[n].val = args.loaded_state_dict.sd[n].val
           /\ (~args.loaded_state_dict.given /\ args.ckpt_path # None)
              => /\ Did("open")
                 /\ pc = "ready"
                      => \A n \in DOMAIN model.P :
                            model.P[n].val = ckpt_file[n].val
           /\ (~args.loaded_state_dict.given /\ args.ckpt_path = None)
              => /\ pc = "failed"
                 /\ cerr.err = "ValueError"
                 /\ ~Did("open")
                 /\ ~Did("load")

\* C6's case: a model was built from a pre-loaded mapping while a path to
\* an existing checkpoint with other tensors was given as well
C6_Witness ==
    /\ pc = "ready"
    /\ args.loaded_state_dict.given
    /\ args.ckpt_path = "model.safetensors"
    /\ \E n \in DOMAIN model.P \cap DOMAIN ckpt_file :
          ckpt_file[n].val # model.P[n].val

(* ------------------- SpecGen: the generator on its own ---------------- *)
UpsampleRateValues == 1..3

UpsampleKernelValues == 2..3

ResKernelValues == {3, 4}

DilationSets == {<<1, 3, 5>>, <<2, 2, 2>>}

ConvKernelValues == {3, 4}

GenCfgs ==
    [hop_length : 1..MaxHop,
     upsample_rates : SeqsUpTo(UpsampleRateValues, MaxStages),
     upsample_kernel_sizes : SeqsUpTo(UpsampleKernelValues, MaxStages),
     resblock_kernel_sizes : SeqsUpTo(ResKernelValues, MaxKernels),
     resblock_dilation_sizes : SeqsUpTo(DilationSets, MaxKernels),
     num_mels : {NumMels},
     upsample_initial_channel : {InitialChannel},
     use_template : BOOLEAN,
     pre_conv_kernel_size : ConvKernelValues,
     post_conv_kernel_size : ConvKernelValues]

GInit ==
    /\ gpc = "cfg"
    /\ gcfg \in GenCfgs
    /\ gen = GenFailed("", <<>>)
    /\ gin = NoCall
    /\ gres = NoResult
    /\ BlockIdle
    /\ MainIdle

\* HiFiGANGenerator(**gcfg) under the default interpreter (__debug__ true)
GConstruct ==
    /\ gpc = "cfg"
    /\ gen' = HiFiGANGenerator_init(gcfg, TRUE)
    /\ gpc' = IF gen'.err = "" THEN "built" ELSE "failed"
    /\ UNCHANGED <<gcfg, gin, gres, bvars, mvars>>

\* generator(x, template) on a latent of `frames` frames; the template, when
\* given, has frames * hop_length samples
GForward ==
    /\ gpc = "built"
    /\ \E frames \in 1..MaxFrames, withTemplate \in BOOLEAN :
         /\ gin' = [frames |-> frames, template |-> withTemplate]
         /\ gres' = HiFiGANGenerator_forward(
                        gen, InitParams(GenNames(gen)),
                        Tensor(gcfg.num_mels, frames, <<1>>, TRUE),
                        IF withTemplate
                        THEN Tensor(1, frames * gcfg.hop_length, <<1>>, TRUE)
                        ELSE NoTensor)
    /\ gpc' = "ran"
    /\ UNCHANGED <<gcfg, gen, bvars, mvars>>

GNext == GConstruct \/ GForward

SpecGen == GInit /\ [][GNext]_vars

(* ---------------- SpecBlock: the residual block family ---------------- *)
BlockKernelValues == {3, 4}

BlockDilations == {1, 2}

DropProbs == {0, 5, 10}

BlockInputs ==
    [kernel_sizes : SeqsUpTo(BlockKernelValues, MaxBranches),
     dilation : BlockDilations,
     dim : {2},
     len : 1..MaxBlockLen,
     batch : 1..MaxBatch,
     x0 : {1},
     drop_prob : DropProbs,
     training : BOOLEAN,
     layer_scale_init_value : {0, 1}]

\* the caller's input tensor (sample b holds x0 + b - 1)
BlockX == Tensor(bin.dim, bin.len, [b \in 1..bin.batch |-> bin.x0 + b - 1],
                 TRUE)

\* the block under test, built as ConvNeXtEncoder builds a basic block
TheBlock ==
    ConvNeXtBlock(<<"block">>, bin.dim, bin.drop_prob,
                  bin.layer_scale_init_value, bin.kernel_sizes[1],
                  bin.dilation)

ThePBlock ==
    ParallelConvNeXtBlock(<<"pblock">>, bin.kernel_sizes, bin.dim,
                          bin.drop_prob, bin.layer_scale_init_value,
                          bin.dilation)

BlockParams(names) == [n \in names |-> [val |-> 2, loaded |-> FALSE]]

BInit ==
    /\ bpc = "in"
    /\ bin \in BlockInputs
    /\ bout = [op |-> ""]
    /\ GenIdle
    /\ MainIdle

\* drop_path(x, drop_prob, training) called directly
BDropPath ==
    /\ bpc = "in"
    /\ \E rnd \in Draws({<<"fn">>}, bin.batch) :
         LET r == drop_path(BlockX, bin.drop_prob, bin.training, TRUE,
                            rnd[<<"fn">>])
         IN  bout' = [op |-> "drop_path", out |-> r.x, dw |-> NoTensor,
                      draws |-> r.draws, rnd |-> rnd]
    /\ bpc' = "out"
    /\ UNCHANGED <<bin, gvars, mvars>>

\* ConvNeXtBlock(kernel_size = kernel_sizes[0], ...)(x)
BBasic ==
    /\ bpc = "in"
    /\ \E d \in Draws(DropSites(<<TheBlock>>), bin.batch) :
         LET rnd == WithDefault(d, {TheBlock.path}, bin.batch)
             P == BlockParams(ConvNeXtBlockNames(TheBlock))
         IN  bout' = [op |-> "basic",
                      out |-> ConvNeXtBlock_forward(TheBlock, P, BlockX, TRUE,
                                                    bin.training, rnd),
                      dw |-> ConvApply(TheBlock.dwconv, P, BlockX),
                      draws |-> 0, rnd |-> rnd]
    /\ bpc' = "out"
    /\ UNCHANGED <<bin, gvars, mvars>>

\* ParallelConvNeXtBlock(kernel_sizes, ...)(x)
BParallel ==
    /\ bpc = "in"
    /\ \E d \in Draws(DropSites(ThePBlock.blocks), bin.batch) :
         LET rnd == WithDefault(d, {ThePBlock.blocks[n].path :
                                      n \in 1..Len(ThePBlock.blocks)},
                                bin.batch)
             P == BlockParams(ParallelNames(ThePBlock))
         IN  bout' = [op |-> "parallel",
                      out |-> ParallelConvNeXtBlock_forward(
                                  ThePBlock, P, BlockX, bin.training, rnd),
                      dw |-> NoTensor, draws |-> 0, rnd |-> rnd]
    /\ bpc' = "out"
    /\ UNCHANGED <<bin, gvars, mvars>>

BNext == BDropPath \/ BBasic \/ BParallel

SpecBlock == BInit /\ [][BNext]_vars

(* --------------------- claims on the block family --------------------- *)
\* the same exception, or the same shape and contents
SameResult(a, b) ==
    /\ a.err = b.err
    /\ a.ch = b.ch
    /\ a.len = b.len
    /\ a.v = b.v

\* the block under test with its residual dropout removed
TheBlockNoDrop == [TheBlock EXCEPT !.drop_path = Identity]

DropDisabled == bin.drop_prob = 0 \/ ~bin.training

\* C7: with drop_prob = 0 (training or not), and in inference mode (for any
\* drop_prob), drop_path returns its input itself and draws no random value,
\* and a block returns what the same block without dropout returns.
C7_DropPathIsIdentity ==
    /\ (bpc = "out" /\ bout.op = "drop_path" /\ DropDisabled) =>
          /\ bout.out = BlockX
          /\ bout.draws = 0
    /\ (bpc = "out" /\ bout.op = "basic" /\ DropDisabled) =>
          bout.out = ConvNeXtBlock_forward(
                         TheBlockNoDrop,
                         BlockParams(ConvNeXtBlockNames(TheBlock)), BlockX,
                         TRUE, bin.training, bout.rnd)

\* a block built with a positive drop rate was run in inference mode on a
\* batch of two and returned a result
C7_Witness ==
    /\ bpc = "out"
    /\ bout.op = "basic"
    /\ bin.drop_prob > 0
    /\ ~bin.training
    /\ bin.batch = 2
    /\ Ok(bout.out)

RECURSIVE SumBranches(_, _, _)
\* acc + the pre-residual outputs of branches n.. of the parallel block
SumBranches(n, P, acc) ==
    IF n > Len(ThePBlock.blocks) THEN acc
    ELSE SumBranches(n + 1, P,
             TensorAdd(acc,
                 ConvNeXtBlock_forward(ThePBlock.blocks[n], P, BlockX, FALSE,
                                       bin.training, bout.rnd)))

\* C8: the parallel block returns x plus the sum of its branches' pre-residual
\* outputs, x added once; built with a single kernel size it returns what the
\* basic block (same kernel size, same weights) returns with its residual add.
C8_ParallelIsInputPlusBranches ==
    (bpc = "out" /\ bout.op = "parallel") =>
        LET P == BlockParams(ParallelNames(ThePBlock))
        IN  /\ Ok(bout.out) =>
                 SameResult(bout.out, SumBranches(1, P, BlockX))
            /\ Len(bin.kernel_sizes) = 1 =>
                 SameResult(bout.out,
                     ConvNeXtBlock_forward(ThePBlock.blocks[1], P, BlockX,
                                           TRUE, bin.training, bout.rnd))

\* C9: for every kernel size, dilation and input length the depthwise
\* convolution keeps the time length, so the residual add is between equal
\* shapes.
C9_DepthwiseKeepsLength ==
    (bpc = "out" /\ bout.op = "basic" /\ Ok(bout.dw)) =>
        bout.dw.len = bin.len

(* ----------------------- claims on the generator ---------------------- *)
\* the forward call made by decode: no template is passed
DecodeCall == gpc = "ran" /\ ~gin.template

\* C1: for every configuration the constructor accepts and every input of
\* F >= 1 frames, the waveform the forward pass returns has time length
\* F * hop_length.
C1_DecodeLengthIsFramesTimesHop ==
    (DecodeCall /\ Ok(gres.x)) =>
        gres.x.len = gin.frames * gcfg.hop_length

\* stage i (1-based) ran its transposed convolution and its template
\* convolution in a generator that upsamples at every stage (rates >= 2, one
\* kernel size per rate), and up to it conv_pre kept the length and every
\* transposed convolution multiplied it by exactly its rate
StageWithTemplate(i) ==
    /\ gpc = "ran"
    /\ Len(gcfg.upsample_kernel_sizes) = Len(gcfg.upsample_rates)
    /\ \A j \in 1..Len(gcfg.upsample_rates) : gcfg.upsample_rates[j] >= 2
    /\ gcfg.use_template
    /\ gin.template
    /\ i \in 1..Len(gres.trace)
    /\ Ok(gres.trace[i].noise)
    /\ Ok(gres.pre) /\ gres.pre.len = gin.frames
    /\ \A j \in 1..i :
          /\ Ok(gres.trace[j].up)
          /\ gres.trace[j].up.len
                = gin.frames * prod(SubSeq(gcfg.upsample_rates, 1, j))

\* C10: with use_template and a template of frames * hop_length samples,
\* every stage's template convolution yields the channel count and the time
\* length of that stage's transposed convolution output.
C10_TemplateMatchesStage ==
    \A i \in 1..MaxStages :
        StageWithTemplate(i) =>
            /\ gres.trace[i].noise.ch = gres.trace[i].up.ch
            /\ gres.trace[i].noise.len = gres.trace[i].up.len

\* ResBlock rb is the one the configuration asks for at stage s (1-based)
\* for its j-th (kernel_size, dilation_set) pair: stage s's channel width,
\* that kernel size, those dilations
BuiltFor(rb, s, j) ==
    /\ j <= Len(gcfg.resblock_kernel_sizes)
    /\ j <= Len(gcfg.resblock_dilation_sizes)
    /\ rb.convs1[1].cin = gcfg.upsample_initial_channel \div Pow2(s)
    /\ rb.convs1[1].k = gcfg.resblock_kernel_sizes[j]
    /\ \A c \in 1..3 :
          rb.convs1[c].dilation = gcfg.resblock_dilation_sizes[j][c]

RECURSIVE SumOfRan(_, _, _)
\* the sum, for batch sample b, of the outputs of the first j ResBlocks
\* stage s called, each applied to the stage input
SumOfRan(s, j, b) ==
    IF j = 0 THEN 0
    ELSE ResBlock1_forward(gen.resblocks[gres.trace[s].ran[j] + 1],
                           InitParams(GenNames(gen)),
                           gres.trace[s].inp).v[b]
         + SumOfRan(s, j - 1, b)

\* C11: in every stage of the forward pass, for every configuration the
\* constructor accepts (tuples of different lengths included), the ResBlocks
\* called are the ones built for that stage, one per (kernel_size,
\* dilation_set) pair at the stage's channel width, no index into ups or
\* resblocks is out of range, exactly num_kernels of them are called on the
\* stage input, and the stage returns their sum divided by num_kernels.
C11_StageRunsItsOwnResBlocks ==
    gpc = "ran" =>
        /\ gres.x.err # "IndexError"
        /\ \A s \in 1..Len(gres.trace) :
              Ok(gres.trace[s].inp) =>
                 LET t == gres.trace[s]
                 IN  /\ \A j \in 1..Len(t.ran) :
                           BuiltFor(gen.resblocks[t.ran[j] + 1], s, j)
                     /\ Ok(t.out) =>
                           /\ Len(t.ran) = gen.num_kernels
                           /\ t.out.ch = t.inp.ch
                           /\ t.out.len = t.inp.len
                           /\ t.out.v =
                                [b \in 1..Len(t.inp.v) |->
                                    Wrap(SumOfRan(s, Len(t.ran), b))
                                        \div gen.num_kernels]

====
